---- MODULE Spec2Model ----
(***************************************************************************)
(* Model of app1.py, the Streamlit front end of the automobile insurance   *)
(* underwriting system.                                                    *)
(*                                                                         *)
(* Streamlit executes the whole script from line 1 to the end (or to the   *)
(* first st.stop()) once when a session opens and once more after every    *)
(* widget interaction.  One such execution is a "render pass"; every       *)
(* action below that stands for a user interaction performs the complete   *)
(* pass.  The process state that outlives a pass is os.environ and the     *)
(* values of the widgets that the pass rendered; everything else (api_key, *)
(* the elements on the page) is rebuilt by each pass.                      *)
(*                                                                         *)
(* The st.spinner blocks (lines 68 and 89) show a transient element that   *)
(* is removed when the block ends; it is not part of the page a pass       *)
(* leaves behind and is not modelled.                                      *)
(***************************************************************************)
EXTENDS Integers, Sequences, FiniteSets, TLC

VARIABLES
    environ,              \* os.environ.get("OPENAI_API_KEY"), None when unset
    dotenvFile,           \* OPENAI_API_KEY entry of the .env file, None when absent
    dotenvInstalled,      \* "from dotenv import load_dotenv" succeeds (line 16)
    underwritingInstalled,\* the three imports of lines 29-31 succeed
    api_key,              \* script global assigned at line 22 in the last pass
    menu,                 \* st.sidebar.radio value (line 42)
    applicant_id,         \* st.text_input (line 62)
    rules_file,           \* st.text_input (line 63)
    run_test,             \* st.checkbox (line 64)
    run_interactive,      \* st.checkbox (line 65)
    list_configs,         \* st.checkbox (line 82)
    comprehensive,        \* st.checkbox (line 83)
    variant_a,            \* st.text_input (line 84)
    variant_b,            \* st.text_input (line 85)
    confidence_level,     \* st.slider (line 86), in hundredths
    clicked,              \* the st.button of the active view returned True in the last pass
    output,               \* elements the last pass put on the page, in order
    halted,               \* the last pass ended in st.stop()
    calls                 \* invocations of basic_main / ab_test_main, in order

vars == <<environ, dotenvFile, dotenvInstalled, underwritingInstalled, api_key,
          menu, applicant_id, rules_file, run_test, run_interactive,
          list_configs, comprehensive, variant_a, variant_b, confidence_level,
          clicked, output, halted, calls>>

----------------------------------------------------------------------------
(* Bounds of the model *)

\* number of distinct non-empty identifiers a text input is given
NumIds == 2
\* how far beyond either end of the slider track the user drags the handle
SliderOvershoot == 2

----------------------------------------------------------------------------
(* Values *)

None == "<None>"              \* Python None / variable absent from os.environ
Undefined == "<undefined>"    \* script global not assigned in this pass

Home == "Home"
BasicUnderwriting == "Basic Underwriting"
ABTesting == "A/B Testing"
About == "About"
MenuOptions == <<Home, BasicUnderwriting, ABTesting, About>>
Views == {MenuOptions[i] : i \in 1..Len(MenuOptions)}

DefaultRulesFile == "config/rules/underwriting_rules.json"
SliderMin == 80
SliderMax == 99
SliderDefault == 95

UnderwritingVersion == "1.0.0"

Ids == {"A" \o ToString(i) : i \in 1..NumIds}
TextInputs == {""} \cup Ids
RulesFiles == {DefaultRulesFile, "rules.json"}
EnvValues == {None, "", "sk-env"}
FileValues == {None, "sk-file1", "sk-file2"}
SliderRequests == (SliderMin - SliderOvershoot)..(SliderMax + SliderOvershoot)

----------------------------------------------------------------------------
(* Widgets *)

\* Widget values of a fresh session: the defaults given in the widget calls.
DefaultWidgets ==
    [menu |-> MenuOptions[1],
     applicant_id |-> "", rules_file |-> DefaultRulesFile,
     run_test |-> FALSE, run_interactive |-> FALSE,
     list_configs |-> FALSE, comprehensive |-> FALSE,
     variant_a |-> "", variant_b |-> "",
     confidence_level |-> SliderDefault]

CurrentWidgets ==
    [menu |-> menu,
     applicant_id |-> applicant_id, rules_file |-> rules_file,
     run_test |-> run_test, run_interactive |-> run_interactive,
     list_configs |-> list_configs, comprehensive |-> comprehensive,
     variant_a |-> variant_a, variant_b |-> variant_b,
     confidence_level |-> confidence_level]

\* Variant: a numeric input without range enforcement.
SliderUnclamped(requested) == requested

\* st.slider(label, 0.8, 0.99, 0.95): the handle cannot leave the track, a
\* drag beyond an end leaves the value at that end.
Slider(requested) ==
    IF requested < SliderMin THEN SliderMin
    ELSE IF requested > SliderMax THEN SliderMax
    ELSE requested

\* Variant: the trigger guard is always taken.
ButtonSticky(click) == TRUE

\* st.button returns True only in the pass started by a click on it.
Button(click) == click

----------------------------------------------------------------------------
(* Formatting *)

\* str(bool) as used by the f-strings of lines 74, 94, 95
BoolStr(b) == IF b THEN "True" ELSE "False"

\* Variant: the value formatted with one decimal, the second one dropped.
FloatStrOneDecimal(h) == "0." \o ToString(h \div 10)

\* str(float) of h/100 for a two-decimal value below 1: the shortest
\* representation, so 0.80 prints as 0.8 and 0.95 as 0.95
FloatStr(h) ==
    IF h % 10 = 0 THEN "0." \o ToString(h \div 10)
    ELSE "0." \o ToString(h \div 10) \o ToString(h % 10)

Element(kind, view, text) == [kind |-> kind, view |-> view, text |-> text]

----------------------------------------------------------------------------
(* The script, section by section *)

\* Variant: "if api_key is None" in place of "if not api_key".
TruthyNoneOnly(s) == s # None

\* bool(s) of an Optional[str]: None and "" are falsy
Truthy(s) == s # None /\ s # ""

\* Variant: load_dotenv(override=True), the file wins over os.environ.
load_dotenv_override(env, file) ==
    IF file # None THEN file ELSE env

\* load_dotenv() with its default override=False: a variable that is already
\* in os.environ (even with an empty value) is left alone, a variable that
\* is absent is set from the .env file when the file has an entry for it.
load_dotenv(env, file) ==
    IF env = None /\ file # None THEN file ELSE env

\* Variant: the st.stop() of line 34 is missing, the pass continues after the
\* import error has been shown.
StartupNoStopOnImport(env, file, dotenvOk, underwritingOk) ==
    IF ~dotenvOk
    THEN [environ |-> env, api_key |-> Undefined, halted |-> TRUE,
          output |-> <<Element("error", "startup",
                        "Please install python-dotenv using: pip install python-dotenv")>>]
    ELSE LET loaded == load_dotenv(env, file)
         IN  IF ~Truthy(loaded)
             THEN [environ |-> loaded, api_key |-> loaded, halted |-> TRUE,
                   output |-> <<Element("error", "startup",
                       "OPENAI_API_KEY not found in your .env file. Please add it to proceed.")>>]
             ELSE IF ~underwritingOk
             THEN [environ |-> loaded, api_key |-> loaded, halted |-> FALSE,
                   output |-> <<Element("error", "startup",
                       "Unable to import underwriting modules. Ensure your project structure and dependencies are correct.")>>]
             ELSE [environ |-> loaded, api_key |-> loaded, halted |-> FALSE,
                   output |-> <<>>]

\* Lines 14-34: the three startup checks.  Each failing check shows one
\* st.error and ends the pass with st.stop().
Startup(env, file, dotenvOk, underwritingOk) ==
    IF ~dotenvOk
    THEN [environ |-> env, api_key |-> Undefined, halted |-> TRUE,
          output |-> <<Element("error", "startup",
                        "Please install python-dotenv using: pip install python-dotenv")>>]
    ELSE LET loaded == load_dotenv(env, file)
         IN  IF ~Truthy(loaded)
             THEN [environ |-> loaded, api_key |-> loaded, halted |-> TRUE,
                   output |-> <<Element("error", "startup",
                       "OPENAI_API_KEY not found in your .env file. Please add it to proceed.")>>]
             ELSE IF ~underwritingOk
             THEN [environ |-> loaded, api_key |-> loaded, halted |-> TRUE,
                   output |-> <<Element("error", "startup",
                       "Unable to import underwriting modules. Ensure your project structure and dependencies are correct.")>>]
             ELSE [environ |-> loaded, api_key |-> loaded, halted |-> FALSE,
                   output |-> <<>>]

\* Lines 36-45: page configuration, title, version caption and sidebar menu.
Page ==
    <<Element("title", "page", "Automobile Insurance Underwriting System"),
      Element("caption", "page", "Version: " \o UnderwritingVersion),
      Element("radio", "page", "Select Option")>>

\* Lines 48-56
HomeView ==
    [output |-> <<Element("header", Home, "Welcome"),
                  Element("write", Home, "This Streamlit app allows you to: ...")>>,
     calls |-> <<>>, clicked |-> FALSE]

\* Variant: the applicant id is echoed as entered, without the placeholder.
BasicTryRawEcho(w) ==
    [raised |-> FALSE, e |-> "", calls |-> <<>>,
     output |->
       <<Element("success", BasicUnderwriting, "Underwriting evaluation completed (demo)."),
         Element("info", BasicUnderwriting, "Applicant ID: " \o w.applicant_id),
         Element("info", BasicUnderwriting, "Rules File: " \o w.rules_file),
         Element("info", BasicUnderwriting,
                 "Run Test: " \o BoolStr(w.run_test)
                    \o ", Run Interactive: " \o BoolStr(w.run_interactive))>>]

\* Lines 69-74: the body of the try block.  The call of basic_main is a
\* comment; the four statements that remain raise nothing.
BasicTry(w) ==
    [raised |-> FALSE, e |-> "", calls |-> <<>>,
     output |->
       <<Element("success", BasicUnderwriting, "Underwriting evaluation completed (demo)."),
         Element("info", BasicUnderwriting,
                 "Applicant ID: " \o (IF w.applicant_id # "" THEN w.applicant_id ELSE "N/A")),
         Element("info", BasicUnderwriting, "Rules File: " \o w.rules_file),
         Element("info", BasicUnderwriting,
                 "Run Test: " \o BoolStr(w.run_test)
                    \o ", Run Interactive: " \o BoolStr(w.run_interactive))>>]

\* Lines 67-76: try / except Exception as e: st.error(f"Error: {e}")
BasicTrigger(w) ==
    LET t == BasicTry(w)
    IN  [calls |-> t.calls,
         output |-> IF t.raised
                    THEN t.output \o <<Element("error", BasicUnderwriting, "Error: " \o t.e)>>
                    ELSE t.output]

\* Lines 59-76
BasicView(w, click) ==
    LET form == <<Element("header", BasicUnderwriting, "Basic Underwriting Evaluation"),
                  Element("text_input", BasicUnderwriting, "Applicant ID (optional):"),
                  Element("text_input", BasicUnderwriting, "Rules File"),
                  Element("checkbox", BasicUnderwriting, "Run automated tests with sample applicants"),
                  Element("checkbox", BasicUnderwriting, "Run interactive underwriting session"),
                  Element("button", BasicUnderwriting, "Run Underwriting Evaluation")>>
    IN  IF Button(click)
        THEN [output |-> form \o BasicTrigger(w).output,
              calls |-> BasicTrigger(w).calls, clicked |-> TRUE]
        ELSE [output |-> form, calls |-> <<>>, clicked |-> FALSE]

\* Variant: the try block calls ab_test_main first, and the call raises
\* when no variant is given.
ABTryWired(w) ==
    IF w.variant_a = ""
    THEN [raised |-> TRUE, e |-> "variant required", calls |-> <<"ab_test_main">>,
          output |-> <<>>]
    ELSE [raised |-> FALSE, e |-> "", calls |-> <<"ab_test_main">>,
          output |->
            <<Element("success", ABTesting, "A/B testing completed (demo)."),
              Element("info", ABTesting,
                      "Variants Compared: " \o w.variant_a \o " vs " \o w.variant_b),
              Element("info", ABTesting,
                      "Comprehensive: " \o BoolStr(w.comprehensive)
                         \o ", Confidence: " \o FloatStr(w.confidence_level)),
              Element("info", ABTesting, "List Configs: " \o BoolStr(w.list_configs))>>]

\* Lines 90-95: the body of the try block.  The call of ab_test_main is a
\* comment; the four statements that remain raise nothing.
ABTry(w) ==
    [raised |-> FALSE, e |-> "", calls |-> <<>>,
     output |->
       <<Element("success", ABTesting, "A/B testing completed (demo)."),
         Element("info", ABTesting,
                 "Variants Compared: " \o w.variant_a \o " vs " \o w.variant_b),
         Element("info", ABTesting,
                 "Comprehensive: " \o BoolStr(w.comprehensive)
                    \o ", Confidence: " \o FloatStr(w.confidence_level)),
         Element("info", ABTesting, "List Configs: " \o BoolStr(w.list_configs))>>]

\* Lines 88-97: try / except Exception as e: st.error(f"Error: {e}")
ABTrigger(w) ==
    LET t == ABTry(w)
    IN  [calls |-> t.calls,
         output |-> IF t.raised
                    THEN t.output \o <<Element("error", ABTesting, "Error: " \o t.e)>>
                    ELSE t.output]

\* Lines 79-97
ABView(w, click) ==
    LET form == <<Element("header", ABTesting, "A/B Testing Module"),
                  Element("checkbox", ABTesting, "List available test configurations"),
                  Element("checkbox", ABTesting, "Run comprehensive A/B test suite"),
                  Element("text_input", ABTesting, "Variant A for comparison:"),
                  Element("text_input", ABTesting, "Variant B for comparison:"),
                  Element("slider", ABTesting, "Confidence Level"),
                  Element("button", ABTesting, "Run A/B Testing")>>
    IN  IF Button(click)
        THEN [output |-> form \o ABTrigger(w).output,
              calls |-> ABTrigger(w).calls, clicked |-> TRUE]
        ELSE [output |-> form, calls |-> <<>>, clicked |-> FALSE]

\* Lines 100-120
AboutView ==
    [output |-> <<Element("header", About, "About This App"),
                  Element("write", About, "This Streamlit application converts ...")>>,
     calls |-> <<>>, clicked |-> FALSE]

\* Variant: the A/B Testing branch compares with a label that is not among
\* the radio's options.
DispatchLabelTypo(w, click) ==
    IF w.menu = Home THEN HomeView
    ELSE IF w.menu = BasicUnderwriting THEN BasicView(w, click)
    ELSE IF w.menu = "AB Testing" THEN ABView(w, click)
    ELSE IF w.menu = About THEN AboutView
    ELSE [output |-> <<>>, calls |-> <<>>, clicked |-> FALSE]

\* Lines 48, 59, 79, 100: the if / elif chain on the menu label
Dispatch(w, click) ==
    IF w.menu = Home THEN HomeView
    ELSE IF w.menu = BasicUnderwriting THEN BasicView(w, click)
    ELSE IF w.menu = ABTesting THEN ABView(w, click)
    ELSE IF w.menu = About THEN AboutView
    ELSE [output |-> <<>>, calls |-> <<>>, clicked |-> FALSE]

\* Widget values after a pass: a widget the pass rendered keeps its value, a
\* widget it did not render (none of them has a key) is forgotten and shows
\* its default when it is rendered again.
Retained(w) ==
    [menu |-> w.menu,
     applicant_id     |-> IF w.menu = BasicUnderwriting THEN w.applicant_id ELSE DefaultWidgets.applicant_id,
     rules_file       |-> IF w.menu = BasicUnderwriting THEN w.rules_file ELSE DefaultWidgets.rules_file,
     run_test         |-> IF w.menu = BasicUnderwriting THEN w.run_test ELSE DefaultWidgets.run_test,
     run_interactive  |-> IF w.menu = BasicUnderwriting THEN w.run_interactive ELSE DefaultWidgets.run_interactive,
     list_configs     |-> IF w.menu = ABTesting THEN w.list_configs ELSE DefaultWidgets.list_configs,
     comprehensive    |-> IF w.menu = ABTesting THEN w.comprehensive ELSE DefaultWidgets.comprehensive,
     variant_a        |-> IF w.menu = ABTesting THEN w.variant_a ELSE DefaultWidgets.variant_a,
     variant_b        |-> IF w.menu = ABTesting THEN w.variant_b ELSE DefaultWidgets.variant_b,
     confidence_level |-> IF w.menu = ABTesting THEN w.confidence_level ELSE DefaultWidgets.confidence_level]

\* Lines 1-120: one execution of the script with widget values w; click says
\* that the pass was started by a click on the button of the active view.
Script(env, file, dotenvOk, underwritingOk, w, click) ==
    LET s == Startup(env, file, dotenvOk, underwritingOk)
    IN  IF s.halted
        THEN [environ |-> s.environ, api_key |-> s.api_key, halted |-> TRUE,
              output |-> s.output, calls |-> <<>>, clicked |-> FALSE,
              widgets |-> DefaultWidgets]
        ELSE LET v == Dispatch(w, click)
             IN  [environ |-> s.environ, api_key |-> s.api_key, halted |-> FALSE,
                  output |-> s.output \o Page \o v.output,
                  calls |-> v.calls, clicked |-> v.clicked,
                  widgets |-> Retained(w)]

----------------------------------------------------------------------------
(* State machine *)

\* The state a pass leaves behind.
Rendered(r) ==
    /\ environ' = r.environ
    /\ api_key' = r.api_key
    /\ halted' = r.halted
    /\ output' = r.output
    /\ clicked' = r.clicked
    /\ calls' = calls \o r.calls
    /\ menu' = r.widgets.menu
    /\ applicant_id' = r.widgets.applicant_id
    /\ rules_file' = r.widgets.rules_file
    /\ run_test' = r.widgets.run_test
    /\ run_interactive' = r.widgets.run_interactive
    /\ list_configs' = r.widgets.list_configs
    /\ comprehensive' = r.widgets.comprehensive
    /\ variant_a' = r.widgets.variant_a
    /\ variant_b' = r.widgets.variant_b
    /\ confidence_level' = r.widgets.confidence_level

\* A render pass with widget values w.
Pass(w, click) ==
    /\ Rendered(Script(environ, dotenvFile, dotenvInstalled, underwritingInstalled, w, click))
    /\ UNCHANGED <<dotenvFile, dotenvInstalled, underwritingInstalled>>

\* The first pass of the process, in a fresh session.
Init ==
    \E env \in EnvValues, file \in FileValues, d \in BOOLEAN, u \in BOOLEAN :
        LET r == Script(env, file, d, u, DefaultWidgets, FALSE)
        IN  /\ dotenvFile = file
            /\ dotenvInstalled = d
            /\ underwritingInstalled = u
            /\ environ = r.environ
            /\ api_key = r.api_key
            /\ halted = r.halted
            /\ output = r.output
            /\ clicked = r.clicked
            /\ calls = r.calls
            /\ menu = r.widgets.menu
            /\ applicant_id = r.widgets.applicant_id
            /\ rules_file = r.widgets.rules_file
            /\ run_test = r.widgets.run_test
            /\ run_interactive = r.widgets.run_interactive
            /\ list_configs = r.widgets.list_configs
            /\ comprehensive = r.widgets.comprehensive
            /\ variant_a = r.widgets.variant_a
            /\ variant_b = r.widgets.variant_b
            /\ confidence_level = r.widgets.confidence_level

\* The browser page is loaded again: a new session, every widget at its default.
Reload == Pass(DefaultWidgets, FALSE)

\* The .env file, which load_dotenv reads in every pass, is edited on disk.
EditDotenvFile ==
    /\ \E v \in FileValues : v # dotenvFile /\ dotenvFile' = v
    /\ UNCHANGED <<environ, dotenvInstalled, underwritingInstalled, api_key,
                   menu, applicant_id, rules_file, run_test, run_interactive,
                   list_configs, comprehensive, variant_a, variant_b,
                   confidence_level, clicked, output, halted, calls>>

\* Line 42: another option of the sidebar radio is chosen.
SelectMenu ==
    /\ ~halted
    /\ \E i \in 1..Len(MenuOptions) :
          /\ MenuOptions[i] # menu
          /\ Pass([CurrentWidgets EXCEPT !.menu = MenuOptions[i]], FALSE)

\* Line 62
SetApplicantId ==
    /\ ~halted /\ menu = BasicUnderwriting
    /\ \E s \in TextInputs :
          /\ s # applicant_id
          /\ Pass([CurrentWidgets EXCEPT !.applicant_id = s], FALSE)

\* Line 63
SetRulesFile ==
    /\ ~halted /\ menu = BasicUnderwriting
    /\ \E s \in RulesFiles :
          /\ s # rules_file
          /\ Pass([CurrentWidgets EXCEPT !.rules_file = s], FALSE)

\* Line 64
ToggleRunTest ==
    /\ ~halted /\ menu = BasicUnderwriting
    /\ Pass([CurrentWidgets EXCEPT !.run_test = ~run_test], FALSE)

\* Line 65
ToggleRunInteractive ==
    /\ ~halted /\ menu = BasicUnderwriting
    /\ Pass([CurrentWidgets EXCEPT !.run_interactive = ~run_interactive], FALSE)

\* Line 67: the button "Run Underwriting Evaluation" is clicked.
PressRunUnderwriting ==
    /\ ~halted /\ menu = BasicUnderwriting
    /\ Pass(CurrentWidgets, TRUE)

\* Line 82
ToggleListConfigs ==
    /\ ~halted /\ menu = ABTesting
    /\ Pass([CurrentWidgets EXCEPT !.list_configs = ~list_configs], FALSE)

\* Line 83
ToggleComprehensive ==
    /\ ~halted /\ menu = ABTesting
    /\ Pass([CurrentWidgets EXCEPT !.comprehensive = ~comprehensive], FALSE)

\* Line 84
SetVariantA ==
    /\ ~halted /\ menu = ABTesting
    /\ \E s \in TextInputs :
          /\ s # variant_a
          /\ Pass([CurrentWidgets EXCEPT !.variant_a = s], FALSE)

\* Line 85
SetVariantB ==
    /\ ~halted /\ menu = ABTesting
    /\ \E s \in TextInputs :
          /\ s # variant_b
          /\ Pass([CurrentWidgets EXCEPT !.variant_b = s], FALSE)

\* Line 86: the slider handle is dragged; the widget reports a new value only
\* when the value it settles on differs from the current one.
SlideConfidence ==
    /\ ~halted /\ menu = ABTesting
    /\ \E requested \in SliderRequests :
          /\ Slider(requested) # confidence_level
          /\ Pass([CurrentWidgets EXCEPT !.confidence_level = Slider(requested)], FALSE)

\* Line 88: the button "Run A/B Testing" is clicked.
PressRunABTesting ==
    /\ ~halted /\ menu = ABTesting
    /\ Pass(CurrentWidgets, TRUE)

Next ==
    \/ Reload
    \/ EditDotenvFile
    \/ SelectMenu
    \/ SetApplicantId
    \/ SetRulesFile
    \/ ToggleRunTest
    \/ ToggleRunInteractive
    \/ PressRunUnderwriting
    \/ ToggleListConfigs
    \/ ToggleComprehensive
    \/ SetVariantA
    \/ SetVariantB
    \/ SlideConfidence
    \/ PressRunABTesting

Spec == Init /\ [][Next]_vars

----------------------------------------------------------------------------
(* What a page shows *)

Indices(out) == DOMAIN out

\* the menu labels whose branch of the if / elif chain put something on the page
ViewsRendered(out) == {out[i].view : i \in Indices(out)} \cap Views

CountKind(out, kind) == Cardinality({i \in Indices(out) : out[i].kind = kind})

IsResultElement(e) == e.kind \in {"success", "info", "error"} /\ e.view \in Views

\* the result panel: the status and informational lines written by a trigger
ResultPanel(out) == SelectSeq(out, IsResultElement)

InteractiveViews == {BasicUnderwriting, ABTesting}

----------------------------------------------------------------------------
(* Properties *)

\* C1: in every render pass that gets past the startup checks exactly one
\* view body is rendered, the one of the current navigation selection, and
\* the other three put nothing on the page, after any sequence of
\* navigation changes, input changes and trigger presses.
C1_ExactlyOneView ==
    ~halted =>
        /\ menu \in Views
        /\ ViewsRendered(output) = {menu}
        /\ \A v \in Views \ {menu} :
               \A i \in Indices(output) : output[i].view # v
        /\ \E i \in Indices(output) : output[i].kind = "header" /\ output[i].view = menu

C1_Witness ==
    ~halted /\ menu = ABTesting /\ clicked /\ variant_a # "" /\ comprehensive

\* C2: with no credential in the environment (OPENAI_API_KEY unset or empty
\* once .env has been loaded) the pass halts before the page and any view is
\* rendered and shows exactly one error, whether or not python-dotenv and the
\* underwriting modules can be imported.
C2_NoCredentialHalts ==
    (environ = None \/ environ = "") =>
        /\ halted
        /\ ViewsRendered(output) = {}
        /\ Len(output) = 1
        /\ CountKind(output, "error") = 1

C2_Witness ==
    environ = "" /\ dotenvInstalled /\ underwritingInstalled /\ dotenvFile # None /\ halted

\* C4: a press of "Run Underwriting Evaluation" yields a success status, the
\* applicant id with "N/A" standing in for an empty one, the rules file path
\* and the two toggles.
C4_BasicEcho ==
    (~halted /\ menu = BasicUnderwriting /\ clicked) =>
        LET panel == ResultPanel(output)
        IN  /\ Len(panel) = 4
            /\ panel[1].kind = "success"
            /\ \A i \in 2..4 : panel[i].kind = "info"
            /\ (applicant_id = "" => panel[2].text = "Applicant ID: N/A")
            /\ (applicant_id # "" => panel[2].text = "Applicant ID: " \o applicant_id)
            /\ panel[3].text = "Rules File: " \o rules_file
            /\ (rules_file = DefaultRulesFile =>
                  panel[3].text = "Rules File: config/rules/underwriting_rules.json")
            /\ panel[4].text =
                  "Run Test: " \o (IF run_test THEN "True" ELSE "False")
                  \o ", Run Interactive: " \o (IF run_interactive THEN "True" ELSE "False")

C4_Witness ==
    /\ ~halted /\ menu = BasicUnderwriting /\ clicked
    /\ applicant_id = "" /\ rules_file = DefaultRulesFile /\ run_test /\ ~run_interactive

\* C5: a press of "Run A/B Testing" yields a success status that echoes both
\* variant identifiers and the confidence level as entered: the echoed text
\* is the decimal numeral of the slider value and no two slider values share
\* a numeral, for every combination of toggles, variants and confidence.
C5_ABEcho ==
    (~halted /\ menu = ABTesting /\ clicked) =>
        LET panel == ResultPanel(output)
            numeral == [h \in 80..99 |->
                          IF h % 10 = 0 THEN "0." \o ToString(h \div 10)
                          ELSE "0." \o ToString(h)]
        IN  /\ Len(panel) = 4
            /\ panel[1].kind = "success"
            /\ panel[2].text = "Variants Compared: " \o variant_a \o " vs " \o variant_b
            /\ confidence_level \in DOMAIN numeral
            /\ panel[3].text =
                  "Comprehensive: " \o (IF comprehensive THEN "True" ELSE "False")
                  \o ", Confidence: " \o numeral[confidence_level]
            /\ \A h \in 80..99 :
                  h # confidence_level =>
                     panel[3].text # "Comprehensive: " \o (IF comprehensive THEN "True" ELSE "False")
                                       \o ", Confidence: " \o FloatStr(h)
            /\ panel[4].text = "List Configs: " \o (IF list_configs THEN "True" ELSE "False")
            /\ ((variant_a = "A1" /\ variant_b = "A2" /\ confidence_level = 95) =>
                  /\ panel[2].text = "Variants Compared: A1 vs A2"
                  /\ panel[3].text \in {"Comprehensive: True, Confidence: 0.95",
                                        "Comprehensive: False, Confidence: 0.95"})

C5_Witness ==
    /\ ~halted /\ menu = ABTesting /\ clicked
    /\ variant_a = "A1" /\ variant_b = "A2" /\ confidence_level = 95

\* C6: the confidence level held by the form lies in [0.80, 0.99] in every
\* state, with 0.95 in a view that has just been opened, and so does every
\* confidence value a trigger echoes: a drag beyond the track is not passed
\* through.
C6_ConfidenceInRange ==
    /\ confidence_level \in 80..99
    /\ (menu # ABTesting => confidence_level = 95)
    /\ (~halted /\ menu = ABTesting /\ clicked) =>
          \E h \in 80..99, b \in {"True", "False"} :
              ResultPanel(output)[3].text =
                  "Comprehensive: " \o b \o ", Confidence: " \o FloatStr(h)

C6_Witness ==
    ~halted /\ menu = ABTesting /\ clicked /\ confidence_level = 99

\* C7: when the credential is present and the underwriting modules cannot
\* be imported, the pass shows the import error and halts before anything
\* else: no title, caption, navigation control, view body or result panel.
C7_ImportFaultHalts ==
    (dotenvInstalled /\ environ # None /\ environ # "" /\ ~underwritingInstalled) =>
        /\ halted
        /\ Len(output) = 1
        /\ output[1].kind = "error" /\ output[1].view = "startup"
        /\ CountKind(output, "title") = 0
        /\ CountKind(output, "radio") = 0
        /\ ViewsRendered(output) = {}
        /\ ResultPanel(output) = <<>>

C7_Witness ==
    dotenvInstalled /\ environ = "sk-file2" /\ ~underwritingInstalled /\ halted

\* C8: no trigger press calls basic_main or ab_test_main; every press shows
\* the fixed success message first and the echo lines after it, and no view
\* ever shows an error, whatever the inputs.
C8_StubNeverCallsNorFails ==
    /\ calls = <<>>
    /\ \A i \in Indices(output) :
          output[i].kind = "error" => output[i].view = "startup"
    /\ (~halted /\ clicked) =>
          LET panel == ResultPanel(output)
          IN  /\ Len(panel) = 4
              /\ panel[1].kind = "success"
              /\ panel[1].text = (IF menu = BasicUnderwriting
                                  THEN "Underwriting evaluation completed (demo)."
                                  ELSE "A/B testing completed (demo).")
              /\ \A i \in 2..4 : panel[i].kind = "info"

C8_Witness ==
    ~halted /\ clicked /\ menu = ABTesting /\ variant_a = "" /\ variant_b = ""

\* C9 as stated: the credential is loaded once at startup and is read-only
\* from then on; nothing after the first pass re-reads or changes it, and a
\* change of the environment after startup has no effect on later passes.
C9_LoadedOnce ==
    [][api_key' = api_key /\ environ' = environ /\ halted' = halted]_vars

\* C9, amended: every pass reads the credential again, so api_key is the
\* value os.environ holds at that pass; a value that is present in
\* os.environ is never changed by a pass, while an absent one is taken from
\* the .env file by the first pass that finds it there.
C9_RereadEachPass ==
    [][ /\ (environ # None => environ' = environ)
        /\ (api_key' # Undefined => api_key' = environ')
        /\ (environ' # environ => environ' = dotenvFile /\ dotenvInstalled)
        /\ (dotenvFile' # dotenvFile => environ' = environ /\ api_key' = api_key) ]_vars

C9_Witness ==
    /\ environ = "sk-file2" /\ api_key = "sk-file2" /\ dotenvFile = "sk-file1"
    /\ ~halted /\ clicked

\* C10: a result panel is on the page only after a pass started by a press
\* of the active view's trigger; the pass of any other interaction (input
\* change, navigation change, reload) leaves no panel, and the Home and
\* About views never show one.
C10_PanelOnlyAfterTrigger ==
    /\ [](/\ (ResultPanel(output) # <<>>) = (~halted /\ clicked)
          /\ (clicked => menu \in InteractiveViews)
          /\ (menu \notin InteractiveViews => ResultPanel(output) = <<>>))
    /\ [][ (output' # output \/ clicked' # clicked) =>
              /\ (ResultPanel(output') # <<>>) =>
                    (PressRunUnderwriting \/ PressRunABTesting)
              /\ ~(PressRunUnderwriting \/ PressRunABTesting) =>
                    ResultPanel(output') = <<>> ]_vars

C10_Witness ==
    ~halted /\ menu = BasicUnderwriting /\ ~clicked /\ applicant_id = "A1" /\ run_interactive

====
